---- MODULE Spec2Model ----
(***************************************************************************)
(* Model of az_model/api.py: the prediction engine calculate_prediction,   *)
(* the input normaliser inside POST /api/predict, the baseline loader      *)
(* load_latest_data and GET /api/data/latest, with the formula of          *)
(* az_model/model.py beside it.                                            *)
(*                                                                         *)
(* Spec runs the operations one at a time, each handler as one step.       *)
(* SpecEnsure runs ensure_compiled_data in several threads at once, one    *)
(* statement or file operation per step.                                   *)
(*                                                                         *)
(* Numbers.  Python floats are modelled as fixed-point integers:           *)
(*   - an observation (an element of a category series) is a number of    *)
(*     ticks, TicksPerUnit ticks making 1.0;                               *)
(*   - a coefficient is a number of hundredths (0.14 is 14);               *)
(*   - a weighted sum, delta_P and the band are in units of                *)
(*     1 / (100 * TicksPerUnit), so that coefficient * observation is      *)
(*     exact;                                                              *)
(*   - a scalar weight of a request is a whole number of percent.          *)
(* The tick is half of 10^-NDIGITS, the coarsest resolution at which       *)
(* round(x, 6) still loses information.                                    *)
(***************************************************************************)
EXTENDS Integers, Sequences, FiniteSets, TLC

\* ------------------------------------------------------------------------
\* Bounds of the model
\* ------------------------------------------------------------------------
\* longest series a caller or a request supplies
MaxLen == 5

\* most pct_change rows a category has in the compiled dataset
MaxRows == 5

\* most threads inside ensure_compiled_data at once
MaxCallers == 3

\* ------------------------------------------------------------------------
\* Fixed-point arithmetic
\* ------------------------------------------------------------------------
NDIGITS == 6

TicksPerUnit == 2 * 10^NDIGITS

\* 1.0 in the unit of the weighted sums
One == 100 * TicksPerUnit

Abs(x) == IF x < 0 THEN -x ELSE x

Max(a, b) == IF b > a THEN b ELSE a

Min(a, b) == IF b < a THEN b ELSE a

\* x * (h / 100) for x >= 0, rounded down to the unit of x; split so that no
\* intermediate product leaves the 32-bit range
TimesHundredths(x, h) == (x \div 100) * h + ((x % 100) * h) \div 100

\* ------------------------------------------------------------------------
\* Coefficients
\* ------------------------------------------------------------------------
Categories == {"labor", "capital", "materials", "energy", "other"}

\* the default table with the capital t-3 weight entered without its sign
DefaultCoefficientsPositiveCapitalT3 ==
    [ labor_t  |-> 14, capital_t  |-> 7,   materials_t  |-> 7, energy_t  |-> 4, other_t  |-> 6,
      labor_t1 |-> 7,  capital_t1 |-> 7,   materials_t1 |-> 7, energy_t1 |-> 8, other_t1 |-> 6,
      labor_t2 |-> 5,  capital_t2 |-> 1,   materials_t2 |-> 4, energy_t2 |-> 8, other_t2 |-> 2,
      labor_t3 |-> 6,  capital_t3 |-> 11,  materials_t3 |-> 4, energy_t3 |-> 8, other_t3 |-> 2 ]

DEFAULT_COEFFICIENTS ==
    [ labor_t  |-> 14, capital_t  |-> 7,   materials_t  |-> 7, energy_t  |-> 4, other_t  |-> 6,
      labor_t1 |-> 7,  capital_t1 |-> 7,   materials_t1 |-> 7, energy_t1 |-> 8, other_t1 |-> 6,
      labor_t2 |-> 5,  capital_t2 |-> 1,   materials_t2 |-> 4, energy_t2 |-> 8, other_t2 |-> 2,
      labor_t3 |-> 6,  capital_t3 |-> -11, materials_t3 |-> 4, energy_t3 |-> 8, other_t3 |-> 2 ]

\* the keys calculate_prediction reads with coeffs[...], which must be present
RequiredKeys ==
    { "labor_t",  "capital_t",  "materials_t",  "energy_t",
      "labor_t1", "capital_t1", "materials_t1", "energy_t1",
      "labor_t2", "capital_t2", "materials_t2", "energy_t2",
      "labor_t3", "capital_t3", "materials_t3", "energy_t3" }

\* the keys of lags t-2 and t-3
T2T3Keys ==
    { "labor_t2", "capital_t2", "materials_t2", "energy_t2", "other_t2",
      "labor_t3", "capital_t3", "materials_t3", "energy_t3", "other_t3" }

\* the coefficients argument: None, a dict, or (from a request whose
\* coefficients field is a JSON string) a str of len characters
None == [kind |-> "null"]

Dict(m) == [kind |-> "dict", map |-> m]

Str(len) == [kind |-> "str", len |-> len]

\* Python truthiness of the coefficients argument
Truthy(c) ==
    \/ c.kind = "dict" /\ DOMAIN c.map # {}
    \/ c.kind = "str" /\ c.len > 0

\* coeffs = coefficients or DEFAULT_COEFFICIENTS
ActiveCoefficients(c) ==
    IF ~Truthy(c) THEN DEFAULT_COEFFICIENTS
    ELSE IF c.kind = "dict" THEN c.map
    ELSE c

\* coeffs is a str: coeffs["labor_t"] raises TypeError (string indices must
\* be integers)
StringIndexed(c) == Truthy(c) /\ c.kind = "str"

\* a missing key read from the default table instead of the given default
GetFromDefaults(coeffs, key, default) ==
    IF key \in DOMAIN coeffs THEN coeffs[key] ELSE DEFAULT_COEFFICIENTS[key]

\* coeffs.get(key, default)
Get(coeffs, key, default) == IF key \in DOMAIN coeffs THEN coeffs[key] ELSE default

\* ------------------------------------------------------------------------
\* calculate_prediction
\* ------------------------------------------------------------------------
\* the outcome of a call that raises the exception e
Raise(e) == [raised |-> e]

\* the length precondition: every series has at least 4 periods
EnoughPeriods(labor, capital, materials, energy, other) ==
    ~ ( Len(labor) < 4
        \/ Len(capital) < 4
        \/ Len(materials) < 4
        \/ Len(energy) < 4
        \/ Len(other) < 4 )

\* Python index [3] = t, [2] = t-1, [1] = t-2, [0] = t-3 (sequences start at 1)
Term1(coeffs, labor, capital, materials, energy, other) ==
    coeffs["labor_t"] * labor[4]
    + coeffs["capital_t"] * capital[4]
    + coeffs["materials_t"] * materials[4]
    + coeffs["energy_t"] * energy[4]
    + Get(coeffs, "other_t", 0) * other[4]

Term2(coeffs, labor, capital, materials, energy, other) ==
    coeffs["labor_t1"] * labor[3]
    + coeffs["capital_t1"] * capital[3]
    + coeffs["materials_t1"] * materials[3]
    + coeffs["energy_t1"] * energy[3]
    + Get(coeffs, "other_t1", 0) * other[3]

Term3(coeffs, labor, capital, materials, energy, other) ==
    coeffs["labor_t2"] * labor[2]
    + coeffs["capital_t2"] * capital[2]
    + coeffs["materials_t2"] * materials[2]
    + coeffs["energy_t2"] * energy[2]
    + Get(coeffs, "other_t2", 0) * other[2]

Term4(coeffs, labor, capital, materials, energy, other) ==
    coeffs["labor_t3"] * labor[1]
    + coeffs["capital_t3"] * capital[1]
    + coeffs["materials_t3"] * materials[1]
    + coeffs["energy_t3"] * energy[1]
    + Get(coeffs, "other_t3", 0) * other[1]

\* the sign-convention branch left out: term3 and term4 always subtracted
DeltaPRawAlwaysSubtract(coeffs, term1, term2, term3, term4) ==
    term1 + term2 - term3 - term4

\* the sign-convention branch
DeltaPRaw(coeffs, term1, term2, term3, term4) ==
    IF Get(coeffs, "labor_t2", 0) < 0
    THEN term1 + term2 + term3 + term4
    ELSE term1 + term2 - term3 - term4

\* the floor left out
DeltaPNoFloor(delta_P_raw) == delta_P_raw

\* delta_P = max(0.0, delta_P_raw)
DeltaP(delta_P_raw) == Max(0, delta_P_raw)

\* std_dev = abs(delta_P) * 0.15 + 0.5
StdDev(delta_P) == TimesHundredths(Abs(delta_P), 15) + One \div 2

\* the lower edge of the band without its floor
MinValNoFloor(delta_P, std_dev) == delta_P - 3 * std_dev

\* min_val = max(0.0, delta_P - 3 * std_dev)
MinVal(delta_P, std_dev) == Max(0, delta_P - 3 * std_dev)

\* max_val = max(min_val, delta_P + 3 * std_dev)
MaxVal(min_val, delta_P, std_dev) == Max(min_val, delta_P + 3 * std_dev)

\* the echo of one category's resolved lag values
Echo(series) ==
    [k \in {"t", "t-1", "t-2", "t-3"} |->
        CASE k = "t"   -> series[4]
          [] k = "t-1" -> series[3]
          [] k = "t-2" -> series[2]
          [] k = "t-3" -> series[1]]

\* the body of calculate_prediction after its length check
PredictionResult(labor, capital, materials, energy, other, coefficients) ==
    LET coeffs == ActiveCoefficients(coefficients) IN
    IF StringIndexed(coefficients)
    THEN Raise("TypeError")
    ELSE IF ~(RequiredKeys \subseteq DOMAIN coeffs)
    THEN Raise("KeyError")
    ELSE
    LET term1 == Term1(coeffs, labor, capital, materials, energy, other)
        term2 == Term2(coeffs, labor, capital, materials, energy, other)
        term3 == Term3(coeffs, labor, capital, materials, energy, other)
        term4 == Term4(coeffs, labor, capital, materials, energy, other)
        delta_P == DeltaP(DeltaPRaw(coeffs, term1, term2, term3, term4))
        std_dev == StdDev(delta_P)
        min_val == MinVal(delta_P, std_dev)
        max_val == MaxVal(min_val, delta_P, std_dev)
    IN  [ raised  |-> "none",
          delta_P |-> delta_P,
          mean    |-> delta_P,
          stdDev  |-> std_dev,
          min     |-> min_val,
          max     |-> max_val,
          term1   |-> term1,
          term2   |-> term2,
          term3   |-> term3,
          term4   |-> term4,
          inputs  |-> [ labor     |-> Echo(labor),
                        capital   |-> Echo(capital),
                        materials |-> Echo(materials),
                        energy    |-> Echo(energy),
                        other     |-> Echo(other) ] ]

\* an engine that pads a short series itself instead of refusing it
calculate_predictionPadding(labor, capital, materials, energy, other, coefficients) ==
    LET Pad(series) == IF Len(series) >= 4 THEN series
                       ELSE [i \in 1..(4 - Len(series)) |-> 0] \o series
    IN  PredictionResult(Pad(labor), Pad(capital), Pad(materials), Pad(energy),
                         Pad(other), coefficients)

calculate_prediction(labor, capital, materials, energy, other, coefficients) ==
    IF ~EnoughPeriods(labor, capital, materials, energy, other)
    THEN Raise("ValueError")
    ELSE PredictionResult(labor, capital, materials, energy, other, coefficients)

\* ------------------------------------------------------------------------
\* model.py
\* ------------------------------------------------------------------------
\* the formula of model.py on four series of 4 observations, its weights
\* written as in the script (in hundredths)
ModelTerm1(labor, capital, materials, energy) ==
    14 * labor[4] + 7 * capital[4] + 7 * materials[4] + 4 * energy[4]

ModelTerm2(labor, capital, materials, energy) ==
    7 * labor[3] + 7 * capital[3] + 7 * materials[3] + 8 * energy[3]

ModelTerm3(labor, capital, materials, energy) ==
    5 * labor[2] + 1 * capital[2] + 4 * materials[2] + 8 * energy[2]

ModelTerm4(labor, capital, materials, energy) ==
    6 * labor[1] - 11 * capital[1] + 4 * materials[1] + 8 * energy[1]

\* delta_P_raw = term1 + term2 - term3 - term4
ModelDeltaPRaw(term1, term2, term3, term4) == term1 + term2 - term3 - term4

\* delta_P = max(0.0, delta_P_raw)
ModelDeltaP(delta_P_raw) == Max(0, delta_P_raw)

\* ------------------------------------------------------------------------
\* round(x, 6)
\* ------------------------------------------------------------------------
\* ticks in 10^-NDIGITS
Quantum == TicksPerUnit \div 10^NDIGITS

\* the integer nearest to n / d (d > 0), a tie going to the even one (round
\* decides a tie on the binary double, so a decimal tie may fall either way;
\* no property below depends on the direction)
RoundDiv(n, d) ==
    LET q == n \div d
        r == n % d
    IN  IF 2 * r < d THEN q
        ELSE IF 2 * r > d THEN q + 1
        ELSE IF q % 2 = 0 THEN q ELSE q + 1

\* round(x, 6) of the value x = n / d ticks, in ticks
Round6(n, d) == RoundDiv(n, d * Quantum) * Quantum

\* ------------------------------------------------------------------------
\* JSON values of a request body
\* ------------------------------------------------------------------------
\* null is None, and so is req_data.get(key) of a key the body does not hold
JString == [kind |-> "str"]

JObject == [kind |-> "obj"]

JList(items) == [kind |-> "list", items |-> items]

\* a number that float() converts
JNumber(v) == [kind |-> "num", num |-> v]

\* an integer literal beyond the range of a double: float() raises OverflowError
JHugeInt == [kind |-> "hugeint"]

\* ------------------------------------------------------------------------
\* predict: ensure_series and process_input
\* ------------------------------------------------------------------------
\* series[-4:]
Last4(series) == SubSeq(series, Len(series) - 3, Len(series))

Zeros(n) == [i \in 1..n |-> 0]

\* a short series passed on as it is
ensure_seriesNoPadding(series) ==
    IF Len(series) >= 4
    THEN Last4(series)
    ELSE series

ensure_series(series) ==
    IF Len(series) >= 4
    THEN Last4(series)
    ELSE Zeros(4 - Len(series)) \o series

\* latest_data.get(category_key, [])
Baseline(latest_data, category_key) ==
    IF category_key \in DOMAIN latest_data THEN latest_data[category_key] ELSE << >>

\* weight = max(0.0, min(float(value), 100.0)) / 100.0, in hundredths
Weight(v) == Max(0, Min(v, 100))

\* [round(val * weight, 6) for val in base_series]
Scaled(base_series, weight) ==
    [i \in 1..Len(base_series) |-> Round6(base_series[i] * weight, 100)]

\* manual_value = round(weight * 100, 6); [manual_value] * 4
Manual(weight) == [i \in 1..4 |-> Round6(weight * TicksPerUnit, 1)]

\* a supplied series coerced to 6 decimal places
SuppliedRounded(value) == [i \in 1..Len(value.items) |-> Round6(value.items[i], 1)]

\* return value: the supplied list itself
Supplied(value) == value.items

\* the outcome of process_input: the series it returns, or the exception it raises
Returned(series) == [raised |-> "none", series |-> series]

process_input(value, category_key, latest_data) ==
    LET base_series == ensure_series(Baseline(latest_data, category_key)) IN
    IF value.kind = "list" /\ Len(value.items) = 4
    THEN Returned(Supplied(value))
    ELSE IF value.kind = "hugeint"
    THEN Raise("OverflowError")
    ELSE IF value.kind = "num"
    THEN IF Baseline(latest_data, category_key) # << >>
         THEN Returned(Scaled(base_series, Weight(value.num)))
         ELSE Returned(Manual(Weight(value.num)))
    ELSE IF base_series # << >>
    THEN Returned(base_series)
    ELSE Returned(Zeros(4))

\* ------------------------------------------------------------------------
\* load_latest_data
\* ------------------------------------------------------------------------
\* the compiled dataset does not exist
Missing == [exists |-> FALSE]

\* the compiled dataset holding, per category, its pct_change rows in file order
Compiled(rows) == [exists |-> TRUE, rows |-> rows]

\* .tail(4).tolist()
Tail4(rows) == IF Len(rows) >= 4 THEN Last4(rows) ELSE rows

\* the dummy labor series [1, 2, 3, 4]
DummyLabor == [i \in 1..4 |-> i * TicksPerUnit]

\* the mapping load_latest_data returns for the rows it read
LatestData(rows) ==
    [ labor     |-> IF Len(rows.labor) >= 4 THEN Tail4(rows.labor) ELSE DummyLabor,
      capital   |-> IF Len(Tail4(rows.capital)) = 0 THEN Zeros(4) ELSE Tail4(rows.capital),
      materials |-> IF Len(Tail4(rows.materials)) = 0 THEN Zeros(4) ELSE Tail4(rows.materials),
      energy    |-> IF Len(Tail4(rows.energy)) = 0 THEN Zeros(4) ELSE Tail4(rows.energy),
      other     |-> Zeros(4) ]

\* ------------------------------------------------------------------------
\* ensure_compiled_data, run_data_pipeline and load_latest_data
\* ------------------------------------------------------------------------
\* run_data_pipeline either raises (a script is missing or fails, or the
\* compiled file was not generated) or leaves a compiled dataset behind
PipelineFails == [ok |-> FALSE]

PipelineWrites(rows) == [ok |-> TRUE, rows |-> rows]

\* compute_percentages.py writes the compiled file and fails in a later
\* statement: subprocess.run(..., check=True) raises over a file that exists
PipelineFailsAfterWriting(rows) == [ok |-> FALSE, rows |-> rows]

\* the compiled file a failing pipeline leaves
LeftBehind(file, pipeline) ==
    IF "rows" \in DOMAIN pipeline THEN Compiled(pipeline.rows) ELSE file

\* the globals after ensure_compiled_data, and the exception it raises
ensure_compiled_data(file, initialized, pipeline) ==
    IF initialized /\ file.exists
    THEN [compiled |-> file, data_initialized |-> initialized, raised |-> "none"]
    ELSE IF ~file.exists
    THEN IF pipeline.ok
         THEN [compiled |-> Compiled(pipeline.rows), data_initialized |-> TRUE,
               raised |-> "none"]
         ELSE [compiled |-> LeftBehind(file, pipeline), data_initialized |-> initialized,
               raised |-> IF "rows" \in DOMAIN pipeline THEN "CalledProcessError"
                          ELSE "FileNotFoundError"]
    ELSE [compiled |-> file, data_initialized |-> TRUE, raised |-> "none"]

\* load_latest_data once ensure_compiled_data has run: the globals, with the
\* mapping it returns or the exception it raises (every failure is re-raised
\* as Exception)
Loaded(ensured) ==
    IF ensured.raised # "none" \/ ~ensured.compiled.exists
    THEN [ensured EXCEPT !.raised = "Exception"]
    ELSE [ compiled |-> ensured.compiled, data_initialized |-> ensured.data_initialized,
           raised |-> "none", data |-> LatestData(ensured.compiled.rows) ]

load_latest_data(file, initialized, pipeline) ==
    Loaded(ensure_compiled_data(file, initialized, pipeline))

\* ------------------------------------------------------------------------
\* POST /api/predict
\* ------------------------------------------------------------------------
\* request.get_json() raises on a body that is not JSON, returns None for
\* the JSON null, and otherwise the parsed object
MalformedBody == [kind |-> "malformed"]

NullBody == [kind |-> "null"]

ObjectBody(fields) == [kind |-> "object", fields |-> fields]

\* req_data.get(key)
Field(fields, key) == IF key \in DOMAIN fields THEN fields[key] ELSE None

\* the order in which predict normalises the categories
Order == <<"labor", "capital", "materials", "energy", "other">>

\* a value of the handler that was never computed
Unset == [unset |-> TRUE]

\* except Exception as e: return jsonify({"error": str(e)}), 400
ErrorResponse(e) == [status |-> 400, error |-> e]

\* return jsonify(result)
OkResponse(result) == [status |-> 200, body |-> result]

\* what the handler leaves behind: the globals, the values it computed on the
\* way, and its response
Handled(loaded, data, normalised, args, outcome, answer) ==
    [ compiled |-> loaded.compiled, data_initialized |-> loaded.data_initialized,
      latest_data |-> data, series |-> normalised, call |-> args, result |-> outcome,
      response |-> answer ]

\* result = calculate_prediction(...); return jsonify(result)
Answered(loaded, normalised, args, outcome) ==
    Handled(loaded, loaded.data, normalised, args, outcome,
            IF outcome.raised # "none"
            THEN ErrorResponse(outcome.raised)
            ELSE OkResponse(outcome))

\* the call of calculate_prediction with the five normalised series
Calculated(loaded, normalised, args) ==
    Answered(loaded, normalised, args,
             calculate_prediction(args.labor, args.capital, args.materials,
                                  args.energy, args.other, args.coefficients))

\* the position in Order of the first category whose process_input raises,
\* 6 when none does
FirstRaising(normalised) ==
    IF \A i \in 1..5 : normalised[Order[i]].raised = "none" THEN 6
    ELSE CHOOSE i \in 1..5 :
            /\ normalised[Order[i]].raised # "none"
            /\ \A j \in 1..(i - 1) : normalised[Order[j]].raised = "none"

\* the five process_input calls, in order, up to the first that raises
Normalising(body, loaded, normalised, first) ==
    IF first <= 5
    THEN Handled(loaded, loaded.data,
                 [c \in Categories |->
                     IF \E i \in 1..first : Order[i] = c THEN normalised[c] ELSE Unset],
                 Unset, Unset, ErrorResponse(normalised[Order[first]].raised))
    ELSE Calculated(loaded, normalised,
                    [ labor        |-> normalised["labor"].series,
                      capital      |-> normalised["capital"].series,
                      materials    |-> normalised["materials"].series,
                      energy       |-> normalised["energy"].series,
                      other        |-> normalised["other"].series,
                      coefficients |-> Field(body.fields, "coefficients") ])

\* the handler from the return of load_latest_data on
Serving(body, loaded, normalised) ==
    IF loaded.raised # "none"
    THEN Handled(loaded, Unset, Unset, Unset, Unset, ErrorResponse(loaded.raised))
    ELSE IF body.kind # "object"
    THEN Handled(loaded, loaded.data, Unset, Unset, Unset, ErrorResponse("AttributeError"))
    ELSE Normalising(body, loaded, normalised, FirstRaising(normalised))

\* what process_input gives for each category of the body
Inputs(body, loaded) ==
    [c \in Categories |-> process_input(Field(body.fields, c), c, loaded.data)]

\* the handler once request.get_json() has returned
Parsed(body, loaded) == Serving(body, loaded, Inputs(body, loaded))

\* the whole handler
predict(body, file, initialized, pipeline) ==
    IF body.kind = "malformed"
    THEN [ compiled |-> file, data_initialized |-> initialized,
           latest_data |-> Unset, series |-> Unset, call |-> Unset, result |-> Unset,
           response |-> ErrorResponse("BadRequest") ]
    ELSE Parsed(body, load_latest_data(file, initialized, pipeline))

\* ------------------------------------------------------------------------
\* GET /api/data/latest
\* ------------------------------------------------------------------------
\* the most recent value of a series: index 3 of one of 4 or more values, the
\* last of a shorter one, default of an empty one
get_latest_value(values, default) ==
    IF Len(values) >= 4 THEN values[4]
    ELSE IF Len(values) > 0 THEN values[Len(values)]
    ELSE default

\* data.get("other", [0, 0, 0, 0])
OtherOf(data) == IF "other" \in DOMAIN data THEN data["other"] ELSE Zeros(4)

\* the body of the 200 response
LatestResult(data) ==
    [ labor     |-> get_latest_value(data["labor"], 0),
      capital   |-> get_latest_value(data["capital"], 0),
      materials |-> get_latest_value(data["materials"], 0),
      energy    |-> get_latest_value(data["energy"], 0),
      other     |-> get_latest_value(OtherOf(data), 0),
      full_data |-> [ labor     |-> data["labor"],
                      capital   |-> data["capital"],
                      materials |-> data["materials"],
                      energy    |-> data["energy"],
                      other     |-> OtherOf(data) ] ]

\* return jsonify({"error": str(e)}), 500: the traceback is printed, not sent
InternalErrorResponse(e) == [status |-> 500, error |-> e]

\* the handler from the return of load_latest_data on
Fetched(loaded) ==
    IF loaded.raised # "none"
    THEN Handled(loaded, Unset, Unset, Unset, Unset, InternalErrorResponse(loaded.raised))
    ELSE Handled(loaded, loaded.data, Unset, Unset, Unset,
                 OkResponse(LatestResult(loaded.data)))

\* the whole handler
get_latest_data(file, initialized, pipeline) ==
    Fetched(load_latest_data(file, initialized, pipeline))

\* ------------------------------------------------------------------------
\* Inputs
\* ------------------------------------------------------------------------
\* observations in ticks: whole and half units, and values that are not a
\* multiple of 10^-NDIGITS
Pool == << 4000000, -1000001, 3, 6000000, -5, 2000000, 12000001, 0, -3000000, 7 >>

\* n observations of the pool from position start on (cyclically), times scale
Window(start, n, scale) ==
    [i \in 1..n |-> scale * Pool[((start + i - 2) % Len(Pool)) + 1]]

\* the factors applied to the pool in a direct call
Scales == {-1, 1, 3}

\* the further factor of the other series: 0 for an unused manual channel
OtherScales == {0, 1}

\* a mapping restricted to the keys of S
Restrict(m, S) == [k \in S |-> m[k]]

\* the same set in the other sign convention: every t2 and t3 weight negated
Mirror(m) == [k \in DOMAIN m |-> IF k \in T2T3Keys THEN -m[k] ELSE m[k]]

\* a canonical set whose labor_t2 weight is 0
ZeroLaborT2 == [DEFAULT_COEFFICIENTS EXCEPT !["labor_t2"] = 0]

\* a canonical set with other weights than the default
Custom ==
    [ labor_t  |-> 20, capital_t  |-> 3, materials_t  |-> 0,  energy_t  |-> 9, other_t  |-> 10,
      labor_t1 |-> 1,  capital_t1 |-> 5, materials_t1 |-> 12, energy_t1 |-> 0, other_t1 |-> 4,
      labor_t2 |-> 2,  capital_t2 |-> 8, materials_t2 |-> 1,  energy_t2 |-> 6, other_t2 |-> 7,
      labor_t3 |-> 9,  capital_t3 |-> 0, materials_t3 |-> 3,  energy_t3 |-> 5, other_t3 |-> 1 ]

CoefficientMaps ==
    { DEFAULT_COEFFICIENTS, Mirror(DEFAULT_COEFFICIENTS),
      ZeroLaborT2, Mirror(ZeroLaborT2),
      Custom, Mirror(Custom),
      Restrict(Custom, RequiredKeys \cup {"other_t1"}),
      Restrict(Mirror(Custom), RequiredKeys \cup {"other_t1"}),
      Restrict(Custom, RequiredKeys),
      Restrict(Mirror(Custom), DOMAIN Custom \ {"other_t3"}),
      Restrict(Custom, RequiredKeys \ {"energy_t3"}),
      Restrict(Custom, {}) }

\* the coefficients arguments of a direct call
CoefficientArgs == {None} \cup {Dict(m) : m \in CoefficientMaps}

\* the values a request gives a category; Absent stands for a body without
\* the key
Absent == [kind |-> "absent"]

RequestValues ==
    { Absent, None, JString, JObject, JHugeInt }
    \cup {JNumber(v) : v \in {-5, 0, 50, 100, 150}}
    \cup {JList(Window(2, n, 1)) : n \in 3..MaxLen}

\* the coefficients a request gives
RequestCoefficients ==
    { Absent, Dict(Mirror(DEFAULT_COEFFICIENTS)),
      Dict(Restrict(Custom, RequiredKeys \ {"energy_t3"})),
      Str(0), Str(3) }

\* the body with value a for labor and materials, value b for capital and
\* energy, value c for other, and coefficients k
Fields(a, b, c, k) ==
    LET all == [ labor |-> a, capital |-> b, materials |-> a, energy |-> b,
                 other |-> c, coefficients |-> k ]
    IN  Restrict(all, {key \in DOMAIN all : all[key] # Absent})

RequestBodies ==
    { MalformedBody, NullBody }
    \cup { ObjectBody(Fields(a, b, c, k)) :
             a \in RequestValues, b \in RequestValues, c \in RequestValues,
             k \in RequestCoefficients }

\* the compiled dataset in which labor has n rows and capital, materials and
\* energy have n+1, n+2 and n+3 rows (modulo MaxRows + 1)
Rows(n) ==
    [ labor     |-> Window(1, n, 1),
      capital   |-> Window(3, (n + 1) % (MaxRows + 1), 1),
      materials |-> Window(4, (n + 2) % (MaxRows + 1), 1),
      energy    |-> Window(6, (n + 3) % (MaxRows + 1), 1) ]

DatasetRows == {Rows(n) : n \in 0..MaxRows}

\* compute_percentages.py keeps the last 5 values of a category, hence at
\* most 4 percentage changes
PipelineRows ==
    {rows \in DatasetRows : \A c \in DOMAIN rows : Len(rows[c]) <= 4}

PipelineOutcomes ==
    {PipelineFails}
    \cup {PipelineWrites(rows) : rows \in PipelineRows}
    \cup {PipelineFailsAfterWriting(rows) : rows \in PipelineRows}

\* ------------------------------------------------------------------------
\* State
\* ------------------------------------------------------------------------
\* the threads that may be inside ensure_compiled_data at once
Callers == 1..MaxCallers

\* no thread is inside ensure_compiled_data
NoCaller == [t \in Callers |-> "idle"]

VARIABLES
    compiled,           \* the compiled dataset on disk
    data_initialized,   \* the global _data_initialized
    op,                 \* the operation that has just run, "idle" between two
    req_data,           \* its request body
    latest_data,        \* the baseline it loaded
    series,             \* what process_input gave for each category
    call,               \* the arguments of its call of calculate_prediction
    result,             \* the outcome of that call
    response,           \* the HTTP response
    pc,                 \* where each concurrent caller of ensure_compiled_data is
    started_after       \* the callers that started after a call had returned

vars == << compiled, data_initialized, op, req_data, latest_data, series, call,
           result, response, pc, started_after >>

\* the values of one request at a time
request == << op, req_data, latest_data, series, call, result, response >>

\* the concurrent callers of ensure_compiled_data
callers == << pc, started_after >>

Init ==
    /\ compiled \in {Missing} \cup {Compiled(rows) : rows \in DatasetRows}
    /\ data_initialized = FALSE
    /\ op = "idle"
    /\ req_data = Unset
    /\ latest_data = Unset
    /\ series = Unset
    /\ call = Unset
    /\ result = Unset
    /\ response = Unset
    /\ pc = NoCaller
    /\ started_after = {}

\* a direct call of calculate_prediction: four series of 4 periods and one,
\* odd, of any length up to MaxLen
CalculatePrediction ==
    /\ op = "idle"
    /\ \E scale \in Scales, manual \in OtherScales, odd \in Categories,
          len \in 0..MaxLen, coefficients \in CoefficientArgs :
        LET n == [c \in Categories |-> IF c = odd THEN len ELSE 4]
            args == [ labor        |-> Window(1, n["labor"], scale),
                      capital      |-> Window(2, n["capital"], scale),
                      materials    |-> Window(4, n["materials"], scale),
                      energy       |-> Window(5, n["energy"], scale),
                      other        |-> Window(7, n["other"], scale * manual),
                      coefficients |-> coefficients ]
        IN  /\ op' = "calculate_prediction"
            /\ call' = args
            /\ result' = calculate_prediction(args.labor, args.capital, args.materials,
                                              args.energy, args.other, args.coefficients)
            /\ req_data' = Unset
            /\ latest_data' = Unset
            /\ series' = Unset
            /\ response' = Unset
            /\ UNCHANGED << compiled, data_initialized >>
            /\ UNCHANGED callers

\* the state a served request leaves
Served(body, out) ==
    /\ op' = "predict"
    /\ req_data' = body
    /\ compiled' = out.compiled
    /\ data_initialized' = out.data_initialized
    /\ latest_data' = out.latest_data
    /\ series' = out.series
    /\ call' = out.call
    /\ result' = out.result
    /\ response' = out.response
    /\ UNCHANGED callers

\* POST /api/predict
Predict ==
    /\ op = "idle"
    /\ \E body \in RequestBodies,
          pipeline \in IF compiled.exists THEN {PipelineFails} ELSE PipelineOutcomes :
        Served(body, predict(body, compiled, data_initialized, pipeline))

\* the state a request for the latest data leaves
Latest(out) ==
    /\ op' = "get_latest_data"
    /\ req_data' = Unset
    /\ compiled' = out.compiled
    /\ data_initialized' = out.data_initialized
    /\ latest_data' = out.latest_data
    /\ series' = out.series
    /\ call' = out.call
    /\ result' = out.result
    /\ response' = out.response
    /\ UNCHANGED callers

\* GET /api/data/latest
GetLatestData ==
    /\ op = "idle"
    /\ \E pipeline \in IF compiled.exists THEN {PipelineFails} ELSE PipelineOutcomes :
        Latest(get_latest_data(compiled, data_initialized, pipeline))

\* the operation returns to its caller and its values are dropped
Return ==
    /\ op # "idle"
    /\ op' = "idle"
    /\ req_data' = Unset
    /\ latest_data' = Unset
    /\ series' = Unset
    /\ call' = Unset
    /\ result' = Unset
    /\ response' = Unset
    /\ UNCHANGED << compiled, data_initialized >>
    /\ UNCHANGED callers

Next == CalculatePrediction \/ Predict \/ GetLatestData \/ Return

Spec == Init /\ [][Next]_vars

\* ------------------------------------------------------------------------
\* ensure_compiled_data called from several threads
\* ------------------------------------------------------------------------
\* The development server of app.run serves each request in a thread of its
\* own, and ensure_compiled_data takes no lock: its statements, and the file
\* operations of the pipeline it starts, interleave with those of the other
\* callers.  A caller is at one of:
\*   "idle"                 not called yet
\*   "check_initialized"    before `if _data_initialized and exists`
\*   "check_exists"         before `if not os.path.exists(compiled_file)`
\*   "run_data_pipeline"    before the download scripts
\*   "compute_percentages"  before compiled_df.to_csv(output_csv) opens the file
\*   "to_csv"               the file is open for writing, truncated
\*   "check_generated"      before the exists check that ends run_data_pipeline
\*   "set_initialized"      before `_data_initialized = True`
\*   "returned", "raised"   the call is over

\* the compiled file between its opening (which truncates it) and the end of
\* the write
Truncated == [exists |-> TRUE, truncated |-> TRUE]

\* the compiled dataset is there in full
Populated(file) == file.exists /\ file # Truncated

\* the caller t moves to position p
Goto(t, p) == pc' = [pc EXCEPT ![t] = p]

InitEnsure ==
    /\ compiled \in {Missing} \cup {Compiled(rows) : rows \in PipelineRows}
    /\ data_initialized = FALSE
    /\ op = "idle"
    /\ req_data = Unset
    /\ latest_data = Unset
    /\ series = Unset
    /\ call = Unset
    /\ result = Unset
    /\ response = Unset
    /\ pc = NoCaller
    /\ started_after = {}

\* a thread calls ensure_compiled_data
Call(t) ==
    /\ pc[t] = "idle"
    /\ Goto(t, "check_initialized")
    /\ started_after' =
          IF \E u \in Callers : pc[u] = "returned"
          THEN started_after \cup {t}
          ELSE started_after
    /\ UNCHANGED << compiled, data_initialized >>
    /\ UNCHANGED request

\* if _data_initialized and os.path.exists(compiled_file): return
CheckInitialized(t) ==
    /\ pc[t] = "check_initialized"
    /\ IF data_initialized /\ compiled.exists
       THEN Goto(t, "returned")
       ELSE Goto(t, "check_exists")
    /\ UNCHANGED << compiled, data_initialized, started_after >>
    /\ UNCHANGED request

\* if not os.path.exists(compiled_file): os.makedirs(...); run_data_pipeline()
CheckExists(t) ==
    /\ pc[t] = "check_exists"
    /\ IF ~compiled.exists
       THEN Goto(t, "run_data_pipeline")
       ELSE Goto(t, "set_initialized")
    /\ UNCHANGED << compiled, data_initialized, started_after >>
    /\ UNCHANGED request

\* the download scripts: a missing or failing script raises
DownloadScripts(t) ==
    /\ pc[t] = "run_data_pipeline"
    /\ \/ Goto(t, "compute_percentages")
       \/ Goto(t, "raised")
    /\ UNCHANGED << compiled, data_initialized, started_after >>
    /\ UNCHANGED request

\* compute_percentages.py opens the compiled file for writing
OpenCsv(t) ==
    /\ pc[t] = "compute_percentages"
    /\ compiled' = Truncated
    /\ Goto(t, "to_csv")
    /\ UNCHANGED << data_initialized, started_after >>
    /\ UNCHANGED request

\* compute_percentages.py has written its rows and closes the file
CloseCsv(t) ==
    /\ pc[t] = "to_csv"
    /\ \E rows \in PipelineRows : compiled' = Compiled(rows)
    /\ Goto(t, "check_generated")
    /\ UNCHANGED << data_initialized, started_after >>
    /\ UNCHANGED request

\* if not os.path.exists(compiled_file): raise FileNotFoundError
CheckGenerated(t) ==
    /\ pc[t] = "check_generated"
    /\ IF ~compiled.exists
       THEN Goto(t, "raised")
       ELSE Goto(t, "set_initialized")
    /\ UNCHANGED << compiled, data_initialized, started_after >>
    /\ UNCHANGED request

\* _data_initialized = True, and the call returns
SetInitialized(t) ==
    /\ pc[t] = "set_initialized"
    /\ data_initialized' = TRUE
    /\ Goto(t, "returned")
    /\ UNCHANGED << compiled, started_after >>
    /\ UNCHANGED request

NextEnsure ==
    \E t \in Callers :
        \/ Call(t)
        \/ CheckInitialized(t)
        \/ CheckExists(t)
        \/ DownloadScripts(t)
        \/ OpenCsv(t)
        \/ CloseCsv(t)
        \/ CheckGenerated(t)
        \/ SetInitialized(t)

SpecEnsure == InitEnsure /\ [][NextEnsure]_vars

\* ------------------------------------------------------------------------
\* Properties of calculate_prediction
\* ------------------------------------------------------------------------
\* calculate_prediction was called and returned a result
HasResult == result # Unset /\ result.raised = "none"

\* the coefficient set in effect in the call
Active == ActiveCoefficients(call.coefficients)

\* the weight of a category at lag K (K = 0 for t, 3 for t-3), 0 for an
\* other_* key the set does not hold
Coefficient(category, K) ==
    LET lag == CASE K = 0 -> "t" [] K = 1 -> "t1" [] K = 2 -> "t2" [] K = 3 -> "t3"
        key == category \o "_" \o lag
    IN  IF key \in DOMAIN Active THEN Active[key] ELSE 0

\* the observation of a category at lag K in the series of the call
Observation(category, K) == call[category][4 - K]

\* the sum over the five categories of the lag-K weight times the lag-K
\* observation
WeightedSum(K) ==
    Coefficient("labor", K) * Observation("labor", K)
    + Coefficient("capital", K) * Observation("capital", K)
    + Coefficient("materials", K) * Observation("materials", K)
    + Coefficient("energy", K) * Observation("energy", K)
    + Coefficient("other", K) * Observation("other", K)

\* C1: every result calculate_prediction returns has delta_P >= 0.
C1_FloorInvariant == HasResult => result.delta_P >= 0

\* C1 witness: a direct call returned although its four terms combine to a
\* negative raw value.
C1_Witness ==
    /\ op = "calculate_prediction"
    /\ HasResult
    /\ Active["labor_t2"] >= 0
    /\ result.term1 + result.term2 - result.term3 - result.term4 < 0
    /\ result.delta_P = 0

\* C2: the four terms are the weighted sums of lags t, t-1, t-2, t-3, and
\* delta_P is max(0, term1 + term2 + term3 + term4) when the active labor_t2
\* is negative and max(0, term1 + term2 - term3 - term4) otherwise.
C2_CombinationRule ==
    HasResult =>
        /\ result.term1 = WeightedSum(0)
        /\ result.term2 = WeightedSum(1)
        /\ result.term3 = WeightedSum(2)
        /\ result.term4 = WeightedSum(3)
        /\ result.delta_P =
              IF Active["labor_t2"] < 0
              THEN Max(0, WeightedSum(0) + WeightedSum(1) + WeightedSum(2) + WeightedSum(3))
              ELSE Max(0, WeightedSum(0) + WeightedSum(1) - WeightedSum(2) - WeightedSum(3))

\* C2 witness: a result under a pre-negated set whose t-2 and t-3 sums matter
\* and whose delta_P is above the floor.
C2_Witness ==
    /\ HasResult
    /\ Active["labor_t2"] < 0
    /\ result.term3 + result.term4 # 0
    /\ result.delta_P > 0

\* C3: a call and the call with the same series under the mirrored
\* coefficient set (every t2 and t3 weight negated) return the same delta_P,
\* from either sign convention.
C3_CrossConvention ==
    HasResult =>
        LET mirrored == calculate_prediction(call.labor, call.capital, call.materials,
                                             call.energy, call.other, Dict(Mirror(Active)))
        IN  mirrored.raised = "none" /\ mirrored.delta_P = result.delta_P

\* C4: stdDev = delta_P * 0.15 + 0.5, min = max(0, delta_P - 3 stdDev),
\* max = max(min, delta_P + 3 stdDev), mean = delta_P, and
\* 0 <= min <= delta_P <= max.
C4_Band ==
    HasResult =>
        /\ result.stdDev = TimesHundredths(result.delta_P, 15) + One \div 2
        /\ result.min = Max(0, result.delta_P - 3 * result.stdDev)
        /\ result.max = Max(result.min, result.delta_P + 3 * result.stdDev)
        /\ result.mean = result.delta_P
        /\ 0 <= result.min
        /\ result.min <= result.delta_P
        /\ result.delta_P <= result.max

\* C4 witness: a result whose band has its lower edge above 0.
C4_Witness == HasResult /\ result.min > 0

\* C4 witness of the floored case: delta_P = 0 and the band is [0, 1.5].
C4_WitnessFloored ==
    HasResult /\ result.delta_P = 0 /\ result.min = 0 /\ result.max = 3 * (One \div 2)

\* ------------------------------------------------------------------------
\* Properties of the input normaliser of POST /api/predict
\* ------------------------------------------------------------------------
\* predict has normalised the request
Normalised == op = "predict" /\ series # Unset

\* what the request holds for a category
Requested(category) == Field(req_data.fields, category)

\* process_input ran for the category
Reached(category) == series[category] # Unset

\* a series coerced to 4 periods: zeros in front of a short one, the last 4
\* of a long one
Coerced4(s) == Last4(Zeros(4) \o s)

\* clamp(v, 0, 100) of a request number, in percent
Clamped(value) ==
    IF value.kind = "hugeint" THEN 100
    ELSE IF value.num < 0 THEN 0
    ELSE IF value.num > 100 THEN 100
    ELSE value.num

\* C5: a request value that is a list of exactly 4 elements is the
\* normalised series, element for element, whatever the baseline.
C5_SeriesUnchanged ==
    Normalised =>
        \A c \in Categories :
            (Reached(c) /\ Requested(c).kind = "list" /\ Len(Requested(c).items) = 4)
                => series[c] = Returned(Requested(c).items)

\* C5 witness: a 4-element list that differs from the baseline, holds values
\* finer than 6 decimal places, and came out as it went in.
C5_Witness ==
    /\ Normalised
    /\ \E c \in Categories :
          /\ Reached(c)
          /\ Requested(c).kind = "list"
          /\ Len(Requested(c).items) = 4
          /\ latest_data[c] # Requested(c).items
          /\ \E i \in 1..4 : Requested(c).items[i] % Quantum # 0
          /\ series[c].raised = "none"
          /\ series[c].series = Requested(c).items

\* C6: a request value that is a single number v, for a category with a
\* non-empty baseline, is never rejected and gives the 4-element baseline
\* with each element multiplied by clamp(v, 0, 100) / 100 (to 6 decimal
\* places).
C6_ScalarScaling ==
    Normalised =>
        \A c \in Categories :
            (Reached(c) /\ Requested(c).kind \in {"num", "hugeint"}
                /\ Baseline(latest_data, c) # << >>)
                => /\ series[c].raised = "none"
                   /\ series[c].series =
                        [i \in 1..4 |->
                            Round6(Coerced4(latest_data[c])[i] * Clamped(Requested(c)), 100)]

\* C7: a request value that is a single number v, for a category without a
\* baseline (the manual "other" channel included), gives clamp(v, 0, 100)
\* four times.
C7_ManualChannel ==
    Normalised =>
        \A c \in Categories :
            (Reached(c) /\ Requested(c).kind = "num"
                /\ (c = "other" \/ Baseline(latest_data, c) = << >>))
                => series[c] =
                      Returned([i \in 1..4 |->
                                   Round6(Clamped(Requested(c)) * TicksPerUnit, 1)])

\* C8: process_input raises for no request value, and for a value that is
\* absent, null, a string, an object or a list of another length than 4 it
\* returns the baseline series, [0,0,0,0] when there is none.
C8_NeverRaises ==
    Normalised =>
        \A c \in Categories :
            Reached(c) =>
                /\ series[c].raised = "none"
                /\ ( \/ Requested(c).kind \in {"null", "str", "obj"}
                     \/ (Requested(c).kind = "list" /\ Len(Requested(c).items) # 4) )
                   => series[c].series =
                        IF Baseline(latest_data, c) = << >> THEN Zeros(4)
                        ELSE Coerced4(latest_data[c])

\* C9: every series predict hands to calculate_prediction has exactly 4
\* elements (a shorter baseline is left-padded with 0, a longer one cut to its
\* last 4), and the insufficient-data error is never raised on this path.
C9_AlwaysFourPeriods ==
    op = "predict" =>
        /\ series # Unset =>
              \A c \in Categories :
                  (Reached(c) /\ series[c].raised = "none") =>
                      /\ Len(series[c].series) = 4
                      /\ Requested(c).kind \in {"null", "str", "obj"}
                            => series[c].series = Coerced4(latest_data[c])
        /\ call # Unset => \A c \in Categories : Len(call[c]) = 4
        /\ result # Unset => result.raised # "ValueError"
        /\ response.status = 400 => response.error # "ValueError"

\* C9 witness: a prediction was served from a baseline of fewer than 4 rows,
\* handed on with zeros in front.
C9_Witness ==
    /\ op = "predict"
    /\ call # Unset
    /\ response.status = 200
    /\ \E c \in Categories :
          /\ Len(latest_data[c]) \in 1..3
          /\ Requested(c) = None
          /\ call[c][1] = 0
          /\ call[c][4] = latest_data[c][Len(latest_data[c])]
          /\ call[c][4] # 0

\* C10: calculate_prediction called with a series of fewer than 4 elements
\* raises ValueError and returns nothing, padding nothing; an exception of
\* calculate_prediction inside POST /api/predict is answered with HTTP 400.
C10_InsufficientData ==
    /\ (call # Unset /\ \E c \in Categories : Len(call[c]) < 4)
          => result = Raise("ValueError")
    /\ (op = "predict" /\ result # Unset /\ result.raised # "none")
          => response = [status |-> 400, error |-> result.raised]

\* C10 witness: a direct call whose other series alone is short was refused.
C10_Witness ==
    /\ op = "calculate_prediction"
    /\ Len(call["other"]) < 4
    /\ \A c \in Categories \ {"other"} : Len(call[c]) >= 4
    /\ result = Raise("ValueError")

\* C10 witness on the HTTP path: an exception of the engine answered with 400.
C10_WitnessHttp ==
    /\ op = "predict"
    /\ result # Unset
    /\ result.raised # "none"
    /\ response.status = 400

\* ------------------------------------------------------------------------
\* Properties of the coefficient override
\* ------------------------------------------------------------------------
\* the four keys calculate_prediction reads with coeffs.get(..., 0)
OtherKeys == {"other_t", "other_t1", "other_t2", "other_t3"}

\* an override with each other_* weight it omits set to 0
ZeroFilled(m) ==
    [k \in DOMAIN m \cup OtherKeys |-> IF k \in DOMAIN m THEN m[k] ELSE 0]

\* the call was given an override holding the 16 labor, capital, materials
\* and energy keys
FullOverride ==
    /\ call # Unset
    /\ call.coefficients.kind = "dict"
    /\ RequiredKeys \subseteq DOMAIN call.coefficients.map

\* C11: under an override that holds the 16 labor/capital/materials/energy
\* keys and omits any of the other_* keys, calculate_prediction raises no
\* error on account of the coefficients (series of 4 periods give a result)
\* and returns what it returns for the override with every omitted other_*
\* weight set to 0.
C11_MissingOtherKeys ==
    FullOverride =>
        /\ result = calculate_prediction(call.labor, call.capital, call.materials,
                                         call.energy, call.other,
                                         Dict(ZeroFilled(call.coefficients.map)))
        /\ EnoughPeriods(call.labor, call.capital, call.materials, call.energy,
                         call.other) => result.raised = "none"

\* C11 witness: a result under an override that omits an other_* key at a
\* lag where the other series is not 0.
C11_Witness ==
    /\ FullOverride
    /\ HasResult
    /\ \E K \in 0..3 :
          /\ ~(<<"other_t", "other_t1", "other_t2", "other_t3">>[K + 1]
                  \in DOMAIN call.coefficients.map)
          /\ Observation("other", K) # 0

\* ------------------------------------------------------------------------
\* Properties of the error responses
\* ------------------------------------------------------------------------
\* predict called load_latest_data and it raised
LoadFailed == op = "predict" /\ req_data.kind # "malformed" /\ latest_data = Unset

\* C12: POST /api/predict answers a malformed body or insufficient data with
\* 400 and {error}, and a failure of load_latest_data with 500 and
\* {error, traceback}, never with 400.
C12_StatusByKind ==
    op = "predict" =>
        /\ (req_data.kind = "malformed" \/ (result # Unset /\ result.raised = "ValueError"))
              => (response.status = 400 /\ DOMAIN response = {"status", "error"})
        /\ LoadFailed
              => (response.status = 500
                  /\ DOMAIN response = {"status", "error", "traceback"})

\* the coefficients field of the request predict is serving
RequestedCoefficients == Field(req_data.fields, "coefficients")

\* C13: POST /api/predict with a coefficients field that is a string, the
\* empty string included, answers 400 with a non-empty error, never 200.
C13_StringCoefficients ==
    (op = "predict" /\ req_data.kind = "object" /\ RequestedCoefficients.kind = "str")
        => /\ response.status = 400
           /\ response.error # ""

\* ------------------------------------------------------------------------
\* Properties of the lazy initialisation
\* ------------------------------------------------------------------------
\* the caller t returns from ensure_compiled_data in this step
Returns(t) == pc[t] # "returned" /\ pc'[t] = "returned"

\* the caller t starts the data pipeline in this step
StartsPipeline(t) == pc[t] # "run_data_pipeline" /\ pc'[t] = "run_data_pipeline"

\* C14: in every interleaving of the callers of ensure_compiled_data, a
\* caller that returns leaves (and observes) the flag set and the compiled
\* dataset present in full, never missing or half-written, and a caller that
\* started after a call had returned does not run the data pipeline again.
C14_IdempotentInit ==
    [][ \A t \in Callers :
          /\ Returns(t) => (data_initialized' /\ Populated(compiled'))
          /\ t \in started_after => ~StartsPipeline(t) ]_vars

\* ------------------------------------------------------------------------
\* Properties of the baseline loader
\* ------------------------------------------------------------------------
\* load_latest_data returned a mapping to the handler
HasBaseline == op \in {"predict", "get_latest_data"} /\ latest_data # Unset

\* C15: the mapping load_latest_data returns has the five category keys,
\* each with a series of exactly 4 values in file order (the last 4 rows of a
\* category that has them), whatever the compiled dataset holds, and the
\* full_data GET /api/data/latest serves has 4 values per category.
C15_FourValueSeries ==
    HasBaseline =>
        /\ DOMAIN latest_data = Categories
        /\ \A c \in Categories : Len(latest_data[c]) = 4
        /\ \A c \in Categories \ {"other"} :
              Len(compiled.rows[c]) >= 4 => latest_data[c] = Last4(compiled.rows[c])
        /\ (op = "get_latest_data" /\ response.status = 200)
              => \A c \in Categories : Len(response.body.full_data[c]) = 4

\* a handler calls load_latest_data in this step while the compiled dataset
\* is absent
Regenerating ==
    /\ ~compiled.exists
    /\ op = "idle"
    /\ op' \in {"predict", "get_latest_data"}
    /\ op' = "predict" => req_data'.kind # "malformed"

\* C16: when the compiled dataset is absent, load_latest_data either leaves
\* the compiled file in place, sets the flag and returns data, or raises,
\* returns no data and leaves the flag unset and the dataset absent, so that
\* the next call runs the pipeline again.
C16_AllOrNothing ==
    [][ Regenerating =>
          \/ /\ latest_data' # Unset
             /\ compiled'.exists
             /\ data_initialized'
          \/ /\ latest_data' = Unset
             /\ response'.status # 200
             /\ ~data_initialized'
             /\ ~compiled'.exists ]_vars

\* ------------------------------------------------------------------------
\* Properties of the active coefficient set
\* ------------------------------------------------------------------------
\* the weight a coefficient set m gives a category at lag K, 0 for an other_*
\* key it does not hold
WeightIn(m, category, K) ==
    LET key == category \o "_" \o <<"t", "t1", "t2", "t3">>[K + 1]
    IN  IF category = "other" /\ key \notin DOMAIN m THEN 0 ELSE m[key]

\* the lag-K term of the call computed with the weights of m alone
TermUnder(m, K) ==
    WeightIn(m, "labor", K) * Observation("labor", K)
    + WeightIn(m, "capital", K) * Observation("capital", K)
    + WeightIn(m, "materials", K) * Observation("materials", K)
    + WeightIn(m, "energy", K) * Observation("energy", K)
    + WeightIn(m, "other", K) * Observation("other", K)

\* the result was computed with the weights of m and no other
ComputedUnder(m) ==
    /\ HasResult
    /\ result.term1 = TermUnder(m, 0)
    /\ result.term2 = TermUnder(m, 1)
    /\ result.term3 = TermUnder(m, 2)
    /\ result.term4 = TermUnder(m, 3)

\* calculate_prediction was called with series of at least 4 periods
Called ==
    /\ call # Unset
    /\ EnoughPeriods(call.labor, call.capital, call.materials, call.energy, call.other)

\* C17: the active coefficient set is the supplied mapping whenever one is
\* supplied, the empty one included, and the 20-entry default only when none
\* is: the terms are computed with the weights of the override alone, and an
\* override that lacks a labor, capital, materials or energy key gives no
\* result rather than one filled in from the default table.
C17_OverrideNeverReplaced ==
    /\ Cardinality(DOMAIN DEFAULT_COEFFICIENTS) = 20
    /\ (Called /\ call.coefficients = None) => ComputedUnder(DEFAULT_COEFFICIENTS)
    /\ (Called /\ call.coefficients.kind = "dict") =>
          IF RequiredKeys \subseteq DOMAIN call.coefficients.map
          THEN ComputedUnder(call.coefficients.map)
          ELSE ~HasResult

\* ------------------------------------------------------------------------
\* The default coefficients against model.py
\* ------------------------------------------------------------------------
\* a call without an override, on 4-element labor, capital, materials and
\* energy series and other = [0, 0, 0, 0]
ModelCall ==
    /\ call # Unset
    /\ call.coefficients = None
    /\ \A c \in Categories : Len(call[c]) = 4
    /\ call.other = Zeros(4)

\* C18: without an override and with other = [0,0,0,0], calculate_prediction
\* returns the term1, term2, term3, term4 and delta_P that model.py computes
\* from the same labor, capital, materials and energy series, the capital
\* t-3 weight of -0.11 inside the subtracted term4 included.
C18_ReproducesModel ==
    ModelCall =>
        /\ HasResult
        /\ result.term1 = ModelTerm1(call.labor, call.capital, call.materials, call.energy)
        /\ result.term2 = ModelTerm2(call.labor, call.capital, call.materials, call.energy)
        /\ result.term3 = ModelTerm3(call.labor, call.capital, call.materials, call.energy)
        /\ result.term4 = ModelTerm4(call.labor, call.capital, call.materials, call.energy)
        /\ result.delta_P =
              ModelDeltaP(ModelDeltaPRaw(result.term1, result.term2, result.term3,
                                         result.term4))

\* C18 witness: such a call whose capital at t-3 is not 0 and whose delta_P
\* is above the floor.
C18_Witness ==
    /\ ModelCall
    /\ HasResult
    /\ call.capital[1] # 0
    /\ result.delta_P > 0

\* C18 witness of the floor: such a call whose raw value is negative.
C18_WitnessFloored ==
    /\ ModelCall
    /\ HasResult
    /\ call.capital[1] # 0
    /\ result.term1 + result.term2 - result.term3 - result.term4 < 0
    /\ result.delta_P = 0

====
